---------------------------- MODULE Spec2Model ----------------------------
(***************************************************************************)
(* A model of the bounce demo: BounceScene (src/videogame/scene.py),       *)
(* CircleSprite (src/videogame/circle.py) and elastic_bounce / midpoint    *)
(* (src/videogame/mathutil.py).                                            *)
(*                                                                         *)
(* Numbers.  A sprite's position is read and written through rect.center,  *)
(* and a pygame Rect holds C ints: every write truncates toward zero, so   *)
(* positions are integers (pixels) and are modelled exactly.  Directions,  *)
(* speeds and velocities are Python floats; they are modelled in fixed     *)
(* point: a direction component is an integer count of 1/DScale, a speed   *)
(* an integer count of 1/SScale pixels per millisecond, and a velocity     *)
(* (direction * speed) a count of 1/(DScale*SScale).  delta_time is in     *)
(* milliseconds.                                                           *)
(***************************************************************************)
EXTENDS Integers, Sequences, FiniteSets, TLC

VARIABLES
    screen,       \* self._screen.get_size(): <<width, height>>
    circles,      \* self._circles: sequence of CircleSprite records
    delta_time,   \* self._delta_time
    pc,           \* "make_circles" | "running" | "raised"
    num_circles,  \* make_circles' parameter
    position,     \* make_circles' local: the current candidate position
    raised,       \* the exception that ended the program, or "none"
    ticks,        \* number of update_scene calls on the current population
    log           \* what the last update_scene call did, step by step

vars == <<screen, circles, delta_time, pc, num_circles, position, raised, ticks, log>>

-----------------------------------------------------------------------------
(* Bounds of the model: the largest population, the number of update_scene  *)
(* calls made on one population, the resolution of the fixed-point         *)
(* directions and speeds, and the sides of the two screens                 *)

MaxCircles == 2
MaxTicks == 2
DScale == 100
SScale == 100
CrampedSide == 330
ArenaSide == 400

VScale == DScale * SScale

-----------------------------------------------------------------------------
(* Integer helpers for the arithmetic of floats and of Rect *)

Max(a, b) == IF a >= b THEN a ELSE b
Min(a, b) == IF a <= b THEN a ELSE b
Abs(a) == IF a >= 0 THEN a ELSE -a

\* int(): C truncation toward zero, as Rect does on every assignment
Trunc(a, b) == IF a >= 0 THEN a \div b ELSE -((-a) \div b)

\* a / b in floating point, kept to the model's resolution (round to nearest)
RoundDiv(a, b) == IF a >= 0 THEN (2 * a + b) \div (2 * b) ELSE -((2 * (-a) + b) \div (2 * b))

\* the largest k in lo..hi with k * k <= n, by bisection
SqrtSearch[n \in Nat, lo \in Nat, hi \in Nat] ==
    IF lo >= hi THEN lo
    ELSE IF ((lo + hi + 1) \div 2) * ((lo + hi + 1) \div 2) <= n
         THEN SqrtSearch[n, (lo + hi + 1) \div 2, hi]
         ELSE SqrtSearch[n, lo, ((lo + hi + 1) \div 2) - 1]

\* floor of the square root (46340 is the largest root of a 32-bit integer)
isqrt(n) == SqrtSearch[n, 0, Min(n, 46340)]

-----------------------------------------------------------------------------
(* pygame.math.Vector2 *)

Add(u, v) == <<u[1] + v[1], u[2] + v[2]>>
Sub(u, v) == <<u[1] - v[1], u[2] - v[2]>>
Neg(u) == <<-u[1], -u[2]>>
Times(u, k) == <<u[1] * k, u[2] * k>>
Dot(u, v) == u[1] * v[1] + u[2] * v[2]
LengthSquared(u) == Dot(u, u)
Length(u) == isqrt(LengthSquared(u))

\* Vector2.normalize(): a unit vector at the direction scale; undefined (raises
\* ValueError) for the zero vector, which callers test first
normalize(u) ==
    LET len == Length(u)
    IN  <<RoundDiv(u[1] * DScale, len), RoundDiv(u[2] * DScale, len)>>

\* Vector2.reflect(normal) for a unit normal: v - 2 (v . n) n
reflect(v, n) == Sub(v, Times(n, 2 * Dot(v, n)))


-----------------------------------------------------------------------------
(* CircleSprite *)

min_speed == SScale \div 10
max_speed == (7 * SScale) \div 10
circle_radius == 32
mass == 1

CircleSprite(p, direction, speed, radius) ==
    [position |-> p, direction |-> direction, speed |-> speed, radius |-> radius]

\* the velocity property: direction * speed
velocity(c) == Times(c.direction, c.speed)

\* the velocity setter: _speed is assigned first, then normalize() raises on the
\* zero vector and leaves _direction as it was
SetVelocity(c, v) ==
    IF Length(v) = 0
    THEN [c |-> [c EXCEPT !.speed = 0], err |-> "ValueError"]
    ELSE [c |-> [c EXCEPT !.speed = RoundDiv(Length(v), DScale), !.direction = normalize(v)],
          err |-> "none"]

\* contains with the factor 2 of the separating distance left out
contains_one_radius(c, point, buffer) ==
    LengthSquared(Sub(point, c.position)) <= (c.radius + buffer) * (c.radius + buffer)

\* contains(point, buffer): distance <= 2 * (radius + buffer).  Both sides are
\* non-negative and the squared distance is an integer below 2^53, so the float
\* comparison of the square root agrees with the comparison of the squares.
contains(c, point, buffer) ==
    LengthSquared(Sub(point, c.position)) <= (2 * (c.radius + buffer)) * (2 * (c.radius + buffer))

-----------------------------------------------------------------------------
(* mathutil *)

\* elastic_bounce(a, b); the caller has checked that the centres differ
\* (assert dist != 0.0).  quot * ab_center is computed in one rounded division.
elastic_bounce(a, b) ==
    LET ab_velocity == Sub(velocity(a), velocity(b))
        ab_center == Sub(a.position, b.position)
        ab_v_dot_ab_c == Dot(ab_velocity, ab_center)
        dist == LengthSquared(ab_center)
    IN  <<velocity(a)[1] - RoundDiv(2 * mass * ab_v_dot_ab_c * ab_center[1], (mass + mass) * dist),
          velocity(a)[2] - RoundDiv(2 * mass * ab_v_dot_ab_c * ab_center[2], (mass + mass) * dist)>>

\* midpoint(a, b), in half pixels: twice ((a.x + b.x) / 2.0, (a.y + b.y) / 2.0)
midpoint2(a, b) == Add(a, b)

-----------------------------------------------------------------------------
(* The random draws of make_circles, each from a few of its possible values *)

\* randint(lo, hi): both ends and the middle
RandintValues(lo, hi) == {lo, (lo + hi) \div 2, hi}

random_position(max_width, max_height, buffer_space) ==
    {<<x, y>> : x \in RandintValues(0 + buffer_space, max_width - (1 + buffer_space)),
                y \in RandintValues(0 + buffer_space, max_height - (1 + buffer_space))}

\* (cos theta, sin theta) for the values of theta = uniform(0, 2 pi) drawn
CosSin == {<<DScale, 0>>, <<0, DScale>>, <<-((3 * DScale) \div 5), -((4 * DScale) \div 5)>>}

\* random_point_on_circle(center, radius), at the direction scale
random_point_on_circle(center, radius, cs) == Add(Times(center, DScale), Times(cs, radius))

\* random_direction(center, radius): (point - center).normalize()
random_direction(center, radius) ==
    {normalize(Sub(random_point_on_circle(center, radius, cs), Times(center, DScale))) : cs \in CosSin}

\* speed = uniform(min_speed, max_speed)
Speeds == {min_speed, max_speed}

\* self._screen.get_size(): a screen too small for two circles to be placed and
\* one with room for them
ScreenSizes == {<<CrampedSide, CrampedSide>>, <<ArenaSide, ArenaSide>>}

\* the values given to the delta_time setter, in milliseconds: a frame of no
\* measurable length and a long one, which carries a body across the screen
DeltaTimes == {0, 400}


-----------------------------------------------------------------------------
(* BounceScene.update_scene, loop by loop *)

width == screen[1]
height == screen[2]

\* first loop: position + velocity * delta_time, kept within the screen, then
\* stored through rect.center
Moved(c) ==
    LET px == c.position[1] * VScale + velocity(c)[1] * delta_time
        py == c.position[2] * VScale + velocity(c)[2] * delta_time
        cx == Min(Max(px, (0 + c.radius) * VScale), (width - c.radius) * VScale)
        cy == Min(Max(py, (0 + c.radius) * VScale), (height - c.radius) * VScale)
    IN  [c EXCEPT !.position = <<Trunc(cx, VScale), Trunc(cy, VScale)>>]

\* normal = None; None and the zero vector are both false in `if normal:`
NoNormal == <<0, 0>>

\* the four ifs as an if / elif chain: the first matched normal is kept
Normal_first_matched(c) ==
    IF (c.position[1] - c.radius) <= 0 THEN <<1, 0>>
    ELSE IF (c.position[1] + c.radius) >= width THEN <<-1, 0>>
    ELSE IF (c.position[2] - c.radius) <= 0 THEN <<0, 1>>
    ELSE IF (c.position[2] + c.radius) >= height THEN <<0, -1>>
    ELSE NoNormal

\* second loop: the normal the four ifs leave behind, each overwriting the last
Normal(c) ==
    LET n1 == IF (c.position[1] - c.radius) <= 0 THEN <<1, 0>> ELSE NoNormal
        n2 == IF (c.position[1] + c.radius) >= width THEN <<-1, 0>> ELSE n1
        n3 == IF (c.position[2] - c.radius) <= 0 THEN <<0, 1>> ELSE n2
        n4 == IF (c.position[2] + c.radius) >= height THEN <<0, -1>> ELSE n3
    IN  n4

\* the reflected direction assigned through the velocity setter: the speed
\* becomes the length of a unit vector
Bounced_through_velocity(c) ==
    IF Normal(c) # NoNormal
    THEN [c EXCEPT !.direction = reflect(c.direction, Normal(c)), !.speed = SScale]
    ELSE c

Bounced(c) ==
    IF Normal(c) # NoNormal
    THEN [c EXCEPT !.direction = reflect(c.direction, Normal(c))]
    ELSE c

\* pygame.sprite.collide_circle, with both sprites' radius attribute
collide_circle(a, b) ==
    LengthSquared(Sub(a.position, b.position)) <= (a.radius + b.radius) * (a.radius + b.radius)

\* floor and ceiling of k * x / sqrt(q), for q > 0 and k >= 0
FloorOnLength(k, x, q) ==
    LET f == isqrt(((k * x) * (k * x)) \div q)
    IN  IF x >= 0 THEN f
        ELSE IF f * f * q = (k * x) * (k * x) THEN -f ELSE -(f + 1)

CeilOnLength(k, x, q) == -FloorOnLength(k, -x, q)

\* one coordinate of mid_pt + radius * d.normalize(), stored through
\* rect.center: int() of (m2 / 2 + radius * x / |d|), m2 being twice the
\* midpoint's coordinate
SeatCoordinate(m2, radius, x, q) ==
    IF m2 + FloorOnLength(2 * radius, x, q) >= 0
    THEN (m2 + FloorOnLength(2 * radius, x, q)) \div 2
    ELSE -((-(m2 + CeilOnLength(2 * radius, x, q))) \div 2)

Seat(m2, radius, d) ==
    <<SeatCoordinate(m2[1], radius, d[1], LengthSquared(d)),
      SeatCoordinate(m2[2], radius, d[2], LengthSquared(d))>>

\* the body of the pair loop for circles i < j of st.cs; st.err names the
\* exception raised so far, st.hits the circles of the pairs found colliding and
\* st.bounces the pairs resolved
ResolvePair(st, i, j) ==
    LET a == st.cs[i]
        b == st.cs[j]
        mid_pt2 == midpoint2(a.position, b.position)
        da == Sub(a.position, b.position)
        a1 == [a EXCEPT !.position = Seat(mid_pt2, a.radius, da)]
        db == Sub(b.position, a1.position)
        b1 == [b EXCEPT !.position = Seat(mid_pt2, b.radius, db)]
        va == SetVelocity(a1, elastic_bounce(a1, b1))
        vb == SetVelocity(b1, Neg(elastic_bounce(b1, va.c)))
        raise(cs, e) == [st EXCEPT !.cs = cs, !.err = e, !.hits = @ \cup {i, j}]
    IN  IF st.err # "none" \/ ~collide_circle(a, b) THEN st
        ELSE IF da = <<0, 0>> THEN raise(st.cs, "ValueError")
        ELSE IF db = <<0, 0>> THEN raise([st.cs EXCEPT ![i] = a1], "ValueError")
        ELSE IF a1.position = b1.position
             THEN raise([st.cs EXCEPT ![i] = a1, ![j] = b1], "AssertionError")
        ELSE IF va.err # "none"
             THEN raise([st.cs EXCEPT ![i] = va.c, ![j] = b1], va.err)
        ELSE IF vb.err # "none"
             THEN raise([st.cs EXCEPT ![i] = va.c, ![j] = vb.c], vb.err)
        ELSE [cs |-> [st.cs EXCEPT ![i] = va.c, ![j] = vb.c],
              err |-> "none",
              hits |-> st.hits \cup {i, j},
              bounces |-> Append(st.bounces,
                                 [i |-> i, j |-> j, a |-> a, b |-> b,
                                  seated_a |-> a1.position, seated_b |-> b1.position,
                                  new_a |-> va.c, new_b |-> vb.c])]

\* for index, circle in enumerate(circles[:-1]): for other in circles[index+1:]
RECURSIVE ResolveFrom(_, _, _)
ResolveFrom(st, i, j) ==
    IF i >= Len(st.cs) THEN st
    ELSE IF j > Len(st.cs) THEN ResolveFrom(st, i + 1, i + 2)
    ELSE ResolveFrom(ResolvePair(st, i, j), i, j + 1)

\* the circle the name `circle` is bound to when the trailing asserts run: the
\* last one the pair loop visited, else the last one of the second loop
LastBound(cs) == IF Len(cs) >= 2 THEN Len(cs) - 1 ELSE Len(cs)

TrailingAsserts(cs) ==
    LET circle == cs[LastBound(cs)]
    IN  /\ circle.position[1] >= 0 + circle.radius
        /\ circle.position[1] <= width - circle.radius
        /\ circle.position[2] >= 0 + circle.radius
        /\ circle.position[2] <= height - circle.radius


-----------------------------------------------------------------------------
(* BounceScene.make_circles, one draw at a time *)

buffer_between == circle_radius \div 10

NoPosition == <<0, 0>>

EmptyLog == [before |-> <<>>, moved |-> <<>>, bounced |-> <<>>, hits |-> {}, bounces |-> <<>>]

\* any(does_collide) for the current candidate
AnyCollide(p) == \E k \in 1..Len(circles) : contains(circles[k], p, buffer_between)

Candidates == random_position(width, height, 5 * circle_radius)

\* the constructor: _delta_time = 0, _circles = [], and make_circles(num_circles)
\* entered (a loop of no iterations is over at once)
Init ==
    /\ screen \in ScreenSizes
    /\ num_circles \in 0..MaxCircles
    /\ circles = <<>>
    /\ delta_time = 0
    /\ pc = IF num_circles = 0 THEN "running" ELSE "make_circles"
    /\ position = NoPosition
    /\ raised = "none"
    /\ ticks = 0
    /\ log = EmptyLog

\* the first statement of the for body: position = random_position(...)
FirstDraw(p) ==
    /\ pc = "make_circles"
    /\ position = NoPosition
    /\ position' = p
    /\ UNCHANGED <<screen, circles, delta_time, pc, num_circles, raised, ticks, log>>

\* the body of the while loop: the candidate collides, draw another
Resample(p) ==
    /\ pc = "make_circles"
    /\ position # NoPosition
    /\ AnyCollide(position)
    /\ position' = p
    /\ UNCHANGED <<screen, circles, delta_time, pc, num_circles, raised, ticks, log>>

\* the rest of the for body: the candidate is accepted (the two asserts on it
\* hold of every candidate random_position draws), the sprite is appended, and
\* the loop goes on or ends
Place(direction, speed) ==
    /\ pc = "make_circles"
    /\ position # NoPosition
    /\ ~AnyCollide(position)
    /\ position[1] > 0 /\ position[1] < width
    /\ position[2] > 0 /\ position[2] < height
    /\ speed <= max_speed
    /\ speed >= min_speed
    /\ circles' = Append(circles, CircleSprite(position, direction, speed, circle_radius))
    /\ pc' = IF Len(circles) + 1 < num_circles THEN "make_circles" ELSE "running"
    /\ position' = NoPosition
    /\ UNCHANGED <<screen, delta_time, num_circles, raised, ticks, log>>

MakeCircles ==
    \/ \E p \in Candidates : FirstDraw(p)
    \/ \E p \in Candidates : Resample(p)
    \/ \E direction \in random_direction(position, circle_radius), speed \in Speeds :
            Place(direction, speed)

-----------------------------------------------------------------------------
(* The scene's operations *)

\* the delta_time setter, called before an update_scene call
SetDeltaTime(val) ==
    /\ pc = "running"
    /\ ticks < MaxTicks
    /\ delta_time' = val
    /\ UNCHANGED <<screen, circles, pc, num_circles, position, raised, ticks, log>>

\* process_event for KEYDOWN K_r: _circles = [] and make_circles(len(_circles))
KeyR ==
    /\ pc = "running"
    /\ num_circles' = Len(circles)
    /\ circles' = <<>>
    /\ pc' = IF Len(circles) = 0 THEN "running" ELSE "make_circles"
    /\ log' = EmptyLog
    /\ ticks' = 0
    /\ UNCHANGED <<screen, delta_time, position, raised>>

\* update_scene as a whole; an exception leaves the state as it was when raised
UpdateScene ==
    /\ pc = "running"
    /\ ticks < MaxTicks
    /\ LET moved == [k \in 1..Len(circles) |-> Moved(circles[k])]
           bounced == [k \in 1..Len(circles) |-> Bounced(moved[k])]
           st == ResolveFrom([cs |-> bounced, err |-> "none", hits |-> {}, bounces |-> <<>>], 1, 2)
           err == IF st.err # "none" THEN st.err
                  ELSE IF Len(circles) = 0 THEN "UnboundLocalError"
                  ELSE IF ~TrailingAsserts(st.cs) THEN "AssertionError"
                  ELSE "none"
       IN  /\ circles' = st.cs
           /\ raised' = err
           /\ pc' = IF err = "none" THEN "running" ELSE "raised"
           /\ log' = [before |-> circles, moved |-> moved, bounced |-> bounced,
                      hits |-> st.hits, bounces |-> st.bounces]
    /\ ticks' = ticks + 1
    /\ UNCHANGED <<screen, delta_time, num_circles, position>>

Next ==
    \/ MakeCircles
    \/ \E val \in DeltaTimes : SetDeltaTime(val)
    \/ KeyR
    \/ UpdateScene

Spec == Init /\ [][Next]_vars


\* make_circles alone.  Its steps are taken as long as they can be, and a
\* candidate that would be accepted is drawn sooner or later whenever one exists
\* (a draw of probability > 0, tried for ever, is made with probability 1).
MakeCirclesNext == MakeCircles

ResampleFree == \E p \in Candidates : ~AnyCollide(p) /\ Resample(p)

FairMakeCircles ==
    /\ Init
    /\ [][MakeCirclesNext]_vars
    /\ WF_vars(\E p \in Candidates : FirstDraw(p))
    /\ SF_vars(ResampleFree)
    /\ WF_vars(\E direction \in random_direction(position, circle_radius), speed \in Speeds :
                   Place(direction, speed))

-----------------------------------------------------------------------------
(* Properties *)

\* an update_scene call on the current population has run to completion
Completed == pc = "running" /\ ticks > 0

InBounds(c) ==
    /\ c.position[1] >= c.radius /\ c.position[1] <= width - c.radius
    /\ c.position[2] >= c.radius /\ c.position[2] <= height - c.radius

Overlap(a, b) ==
    LengthSquared(Sub(a.position, b.position)) < (a.radius + b.radius) * (a.radius + b.radius)

\* C1: after every completed update_scene call, every two distinct bodies are at
\* least the sum of their radii apart
C1_NoResidualOverlap ==
    Completed => \A i, j \in 1..Len(circles) : i < j => ~Overlap(circles[i], circles[j])

\* C2: after every completed update_scene call, every body is within
\* [radius, width - radius] x [radius, height - radius]
C2_Containment ==
    Completed => \A i \in 1..Len(circles) : InBounds(circles[i])

\* C3: with at least one body, update_scene never raises
C3_TickNeverFails ==
    Len(circles) >= 1 => raised = "none"


\* the pairs resolved by the last update_scene call
Bounces == {log.bounces[k] : k \in 1..Len(log.bounces)}

\* the rounding a velocity read back from (direction, speed) may carry
VelocityTolerance == DScale + SScale

Momentum(a, b) == Add(velocity(a), velocity(b))
Energy(a, b) == LengthSquared(velocity(a)) + LengthSquared(velocity(b))

\* C4: the velocity update of every resolved pair keeps the sum of the two
\* velocities and the sum of the two squared speeds (to the rounding of the
\* fixed-point velocities: one part in ten of the energy)
C4_ElasticConserves ==
    \A h \in Bounces :
        /\ Abs(Momentum(h.new_a, h.new_b)[1] - Momentum(h.a, h.b)[1]) <= 2 * VelocityTolerance
        /\ Abs(Momentum(h.new_a, h.new_b)[2] - Momentum(h.a, h.b)[2]) <= 2 * VelocityTolerance
        /\ 10 * Abs(Energy(h.new_a, h.new_b) - Energy(h.a, h.b)) <= Energy(h.a, h.b)

Cross(u, v) == u[1] * v[2] - u[2] * v[1]

\* p is exactly radius from the midpoint m2 / 2, on the line of direction d
\* through it, on the side d points to
SeatedExactly(p, m2, radius, d) ==
    /\ LengthSquared(Sub(Times(p, 2), m2)) = (2 * radius) * (2 * radius)
    /\ Cross(Sub(Times(p, 2), m2), d) = 0
    /\ Dot(Sub(Times(p, 2), m2), d) > 0

\* C5: for every colliding pair of distinct centres, the two stored positions
\* after the position update lie on the line through the old centres, each
\* exactly its radius from the old midpoint on its own side, hence exactly the
\* sum of the radii apart
C5_SeatedJustTouching ==
    \A h \in Bounces :
        /\ SeatedExactly(h.seated_a, midpoint2(h.a.position, h.b.position), h.a.radius,
                         Sub(h.a.position, h.b.position))
        /\ SeatedExactly(h.seated_b, midpoint2(h.a.position, h.b.position), h.b.radius,
                         Sub(h.b.position, h.a.position))
        /\ LengthSquared(Sub(h.seated_a, h.seated_b))
               = (h.a.radius + h.b.radius) * (h.a.radius + h.b.radius)

\* make_circles has returned and no update_scene call has moved its circles
Placed == pc = "running" /\ ticks = 0

\* C6: when make_circles returns, every two distinct bodies are at least
\* 2 * (radius + buffer_between) apart
C6_PlacementSeparated ==
    Placed =>
        \A i, j \in 1..Len(circles) :
            i < j => LengthSquared(Sub(circles[i].position, circles[j].position))
                         >= (2 * (circle_radius + buffer_between)) * (2 * (circle_radius + buffer_between))

C6_Witness ==
    /\ Placed
    /\ Len(circles) >= 2
    /\ num_circles = Len(circles)

\* C7: make_circles always finishes: by returning, or with a PlacementInfeasible
\* failure when no candidate can be accepted
C7_PlacementTerminates == <>(pc = "running" \/ raised = "PlacementInfeasible")

\* an update_scene call has run on the current population (to its end or to an
\* exception)
Ticked == ticks > 0 /\ pc # "make_circles"

\* C8: a body that took part in no detected collision of an update_scene call
\* has the speed it had before the call
C8_FreeFlightKeepsSpeed ==
    Ticked =>
        \A i \in 1..Len(circles) :
            i \notin log.hits => circles[i].speed = log.before[i].speed

\* a body that met no other was moved onto a wall and turned round there
C8_Witness ==
    /\ Ticked
    /\ \E i \in 1..Len(circles) :
          /\ i \notin log.hits
          /\ circles[i].position # log.before[i].position
          /\ circles[i].direction # log.before[i].direction

\* the four edge tests, in the order of the code
EdgeTests(c) ==
    <<c.position[1] - c.radius <= 0,
      c.position[1] + c.radius >= width,
      c.position[2] - c.radius <= 0,
      c.position[2] + c.radius >= height>>

Matched(c) == {k \in 1..4 : EdgeTests(c)[k]}

LastOf(S) == CHOOSE k \in S : \A m \in S : m <= k

\* the direction d turned at a vertical edge (tests 1 and 2) or a horizontal
\* one (tests 3 and 4)
TurnedAt(k, d) == IF k \in {1, 2} THEN <<-d[1], d[2]>> ELSE <<d[1], -d[2]>>

\* C9: in the boundary step a body matching no edge test keeps its direction;
\* one matching a single test is reflected about that edge's normal; one
\* matching several is reflected once, about the normal of the last test matched
C9_BoundaryReflection ==
    Ticked =>
        \A i \in 1..Len(log.moved) :
            LET c == log.moved[i]
            IN  log.bounced[i].direction =
                    IF Matched(c) = {} THEN c.direction
                    ELSE TurnedAt(LastOf(Matched(c)), c.direction)

\* one body in a corner (two tests matched, turned at the later one only) and
\* another on a single wall
C9_Witness ==
    /\ Ticked
    /\ \E i \in 1..Len(log.moved) :
          /\ Cardinality(Matched(log.moved[i])) >= 2
          /\ log.moved[i].direction[1] # 0
          /\ log.moved[i].direction[2] # 0
          /\ log.bounced[i].direction # log.moved[i].direction
    /\ \E i \in 1..Len(log.moved) : Cardinality(Matched(log.moved[i])) = 1

InwardNormal(k) == <<<<1, 0>>, <<-1, 0>>, <<0, 1>>, <<0, -1>>>>[k]

\* C10: after the boundary step, a body matching exactly one edge test does not
\* head into that wall
C10_ReflectionTurnsInward ==
    Ticked =>
        \A i \in 1..Len(log.bounced) :
            \A k \in 1..4 :
                Matched(log.bounced[i]) = {k} =>
                    Dot(log.bounced[i].direction, InwardNormal(k)) >= 0

=============================================================================
